---- MODULE Spec2Model ----
(***************************************************************************)
(* A model of the go-mls message layer: the wire decoders of group.go and  *)
(* key_schedule.go, the PSK chaining of extractPSKSecret, the admission    *)
(* procedure welcome.process and the ratchet tree's leaf add.              *)
(*                                                                         *)
(* Wire data is a sequence of bytes (0..255).  A Go pointer is a sequence  *)
(* of length 0 (nil) or 1 (the pointee); a Go error is a string, NoErr for *)
(* nil; a uint64 is the record of its two 32-bit halves.                   *)
(***************************************************************************)
EXTENDS Integers, Sequences, FiniteSets, TLC

VARIABLES
    dKind, dRaw, dPrior, dOut,          \* decoders: which, input, target before, outcome
    pskIDs, psks, pskOut,               \* extractPSKSecret: arguments and outcome
    w, ref, initKeyPriv, signerPub,     \* welcome.process: receiver and arguments
    w0, tamper, wOut,                   \* the welcome as built, the byte flipped, the outcome
    tree, lastAdd                       \* ratchet tree and the last add applied to it

vars == <<dKind, dRaw, dPrior, dOut, pskIDs, psks, pskOut,
          w, ref, initKeyPriv, signerPub, w0, tamper, wOut, tree, lastAdd>>

----------------------------------------------------------------------------
(* Errors                                                                  *)

NoErr == "nil"
ErrUnexpectedEOF == "unexpected EOF"
Panic == "panic: unreachable"

----------------------------------------------------------------------------------------------------------------------------------------
(* cryptobyte.String reads and the repository's vector codec.  A read      *)
(* returns [ok, s, v]: whether it succeeded, the input left, and the value *)
(* of the variable it writes to (unchanged when it fails).                 *)

Ret(success, rest, val) == [ok |-> success, s |-> rest, v |-> val]
Res(error, rest, val) == [err |-> error, s |-> rest, v |-> val]

\* The value x under the name F gives it: a local variable assigned once.
Bind(x, F(_)) == F(x)

Take(s, n) == SubSeq(s, 1, n)
Drop(s, n) == SubSeq(s, n + 1, Len(s))

ReadUint8(s, out) ==
    IF Len(s) < 1 THEN Ret(FALSE, s, out) ELSE Ret(TRUE, Drop(s, 1), s[1])

ReadUint16(s, out) ==
    IF Len(s) < 2 THEN Ret(FALSE, s, out)
    ELSE Ret(TRUE, Drop(s, 2), s[1] * 256 + s[2])

ReadUint32(s, out) ==
    IF Len(s) < 4 THEN Ret(FALSE, s, out)
    ELSE Ret(TRUE, Drop(s, 4), ((s[1] * 256 + s[2]) * 256 + s[3]) * 256 + s[4])

Zero64 == [hi |-> 0, lo |-> 0]

ReadUint64(s, out) ==
    IF Len(s) < 8 THEN Ret(FALSE, s, out)
    ELSE Ret(TRUE, Drop(s, 8),
             [hi |-> ReadUint32(Take(s, 4), 0).v, lo |-> ReadUint32(SubSeq(s, 5, 8), 0).v])

AddUint8(v) == <<v>>
AddUint16(v) == <<v \div 256, v % 256>>
AddUint32(v) == <<v \div 16777216, (v \div 65536) % 256, (v \div 256) % 256, v % 256>>
AddUint64(v) == AddUint32(v.hi) \o AddUint32(v.lo)

\* The variable-length integer that prefixes every vector: the two top bits
\* of the first byte give the width (1, 2 or 4 bytes), 3 is invalid, and the
\* value must use the shortest width that holds it.
varintWidth(b) == IF b \div 64 = 0 THEN 1 ELSE IF b \div 64 = 1 THEN 2 ELSE 4

varintValue(s, n) ==
    IF n = 1 THEN s[1]
    ELSE IF n = 2 THEN (s[1] % 64) * 256 + s[2]
    ELSE (((s[1] % 64) * 256 + s[2]) * 256 + s[3]) * 256 + s[4]

readVarint(s, out) ==
    IF Len(s) < 1 THEN Ret(FALSE, s, out)
    ELSE IF s[1] \div 64 = 3 THEN Ret(FALSE, Drop(s, 1), out)
    ELSE IF Len(s) < varintWidth(s[1]) THEN Ret(FALSE, <<>>, out)
    ELSE Bind(varintWidth(s[1]), LAMBDA n :
         Bind(varintValue(s, n), LAMBDA v :
            IF (n = 2 /\ v < 64) \/ (n = 4 /\ v < 16384)
            THEN Ret(FALSE, Drop(s, n), out)
            ELSE Ret(TRUE, Drop(s, n), v)))

writeVarint(n) ==
    IF n < 64 THEN <<n>>
    ELSE IF n < 16384 THEN <<64 + n \div 256, n % 256>>
    ELSE <<128 + n \div 16777216, (n \div 65536) % 256, (n \div 256) % 256, n % 256>>

readOpaqueVec(s, out) ==
    Bind(readVarint(s, 0), LAMBDA n :
        IF ~n.ok THEN Ret(FALSE, n.s, out)
        ELSE IF Len(n.s) < n.v THEN Ret(FALSE, n.s, out)
        ELSE Ret(TRUE, Drop(n.s, n.v), Take(n.s, n.v)))

writeOpaqueVec(b) == writeVarint(Len(b)) \o b

\* readVector's header: the length prefix and the bytes of the vector, which
\* the caller's element decoder then consumes to the end.
readVectorBytes(s) == readOpaqueVec(s, <<>>)

readOptional(s, out) ==
    Bind(ReadUint8(s, 0), LAMBDA u :
        IF ~u.ok THEN Ret(FALSE, u.s, out)
        ELSE IF u.v = 0 THEN Ret(TRUE, u.s, FALSE)
        ELSE IF u.v = 1 THEN Ret(TRUE, u.s, TRUE)
        ELSE Ret(FALSE, u.s, out))

\* A chain `a && b && c` of reads into the fields of one struct: d is
\* [ok, s, v] with v the struct so far; a read after a failed one is skipped.
Start(zero, s) == Ret(TRUE, s, zero)
Field(d, f, r) == [ok |-> r.ok, s |-> r.s, v |-> [d.v EXCEPT ![f] = r.v]]
fieldUint16(d, f) == IF ~d.ok THEN d ELSE Field(d, f, ReadUint16(d.s, d.v[f]))
fieldUint32(d, f) == IF ~d.ok THEN d ELSE Field(d, f, ReadUint32(d.s, d.v[f]))
fieldUint64(d, f) == IF ~d.ok THEN d ELSE Field(d, f, ReadUint64(d.s, d.v[f]))
fieldOpaqueVec(d, f) == IF ~d.ok THEN d ELSE Field(d, f, readOpaqueVec(d.s, d.v[f]))

\* An extension is its 16-bit type and its opaque data.
ZeroExtension == [extensionType |-> 0, extensionData |-> <<>>]

extension_unmarshal(ext, s) ==
    Bind(fieldOpaqueVec(fieldUint16(Start(ZeroExtension, s), "extensionType"), "extensionData"),
         LAMBDA d : IF ~d.ok THEN Res(ErrUnexpectedEOF, d.s, d.v) ELSE Res(NoErr, d.s, d.v))

RECURSIVE extensionVecLoop(_, _)
extensionVecLoop(vec, acc) ==
    IF vec = <<>> THEN Res(NoErr, vec, acc)
    ELSE Bind(extension_unmarshal(ZeroExtension, vec), LAMBDA r :
            IF r.err # NoErr THEN Res(r.err, r.s, acc)
            ELSE extensionVecLoop(r.s, Append(acc, r.v)))

\* Returns (exts, err): the list is nil unless the whole vector decoded.
unmarshalExtensionVec(s) ==
    Bind(readVectorBytes(s), LAMBDA h :
        IF ~h.ok THEN Res(ErrUnexpectedEOF, h.s, <<>>)
        ELSE Bind(extensionVecLoop(h.v, <<>>), LAMBDA l :
                IF l.err # NoErr THEN Res(l.err, h.s, <<>>)
                ELSE Res(NoErr, h.s, l.v)))

extension_marshal(ext) == AddUint16(ext.extensionType) \o writeOpaqueVec(ext.extensionData)

RECURSIVE concatAll(_)
concatAll(ss) == IF ss = <<>> THEN <<>> ELSE Head(ss) \o concatAll(Tail(ss))

marshalExtensionVec(exts) ==
    writeOpaqueVec(concatAll([i \in 1..Len(exts) |-> extension_marshal(exts[i])]))

----------------------------------------------------------------------------
(* key_schedule.go: groupContext                                           *)

protocolVersionMLS10 == 1

ZeroGroupContext ==
    [version |-> 0, cipherSuite |-> 0, groupID |-> <<>>, epoch |-> Zero64,
     treeHash |-> <<>>, confirmedTranscriptHash |-> <<>>, extensions |-> <<>>]

\* The && chain stops at the first read that fails; the fields read before it
\* stay in *ctx.
groupContext_unmarshal(ctx, s) ==
    Bind(fieldOpaqueVec(fieldOpaqueVec(fieldUint64(fieldOpaqueVec(fieldUint16(fieldUint16(
            Start(ZeroGroupContext, s),
            "version"), "cipherSuite"), "groupID"), "epoch"), "treeHash"),
            "confirmedTranscriptHash"),
      LAMBDA d :
        IF ~d.ok THEN Res(ErrUnexpectedEOF, d.s, d.v)
        ELSE IF d.v.version # protocolVersionMLS10
             THEN Res("mls: invalid protocol version", d.s, d.v)
        ELSE Bind(unmarshalExtensionVec(d.s), LAMBDA e :
                IF e.err # NoErr THEN Res(e.err, e.s, d.v)
                ELSE Res(NoErr, e.s, [d.v EXCEPT !.extensions = e.v])))

groupContext_marshal(ctx) ==
    AddUint16(ctx.version) \o AddUint16(ctx.cipherSuite) \o writeOpaqueVec(ctx.groupID)
    \o AddUint64(ctx.epoch) \o writeOpaqueVec(ctx.treeHash)
    \o writeOpaqueVec(ctx.confirmedTranscriptHash) \o marshalExtensionVec(ctx.extensions)

----------------------------------------------------------------------------
(* key_schedule.go: pskType, resumptionPSKUsage, preSharedKeyID            *)

pskTypeExternal == 1
pskTypeResumption == 2

pskType_unmarshal(t, s) ==
    Bind(ReadUint8(s, t), LAMBDA r :
        IF ~r.ok THEN Res(ErrUnexpectedEOF, r.s, r.v)
        ELSE IF r.v \in {pskTypeExternal, pskTypeResumption} THEN Res(NoErr, r.s, r.v)
        ELSE Res("mls: invalid PSK type", r.s, r.v))

pskType_marshal(t) == AddUint8(t)

resumptionPSKUsageApplication == 1
resumptionPSKUsageReinit == 2
resumptionPSKUsageBranch == 3

resumptionPSKUsage_unmarshal(usage, s) ==
    Bind(ReadUint8(s, usage), LAMBDA r :
        IF ~r.ok THEN Res(ErrUnexpectedEOF, r.s, r.v)
        ELSE IF r.v \in {resumptionPSKUsageApplication, resumptionPSKUsageReinit,
                         resumptionPSKUsageBranch}
             THEN Res(NoErr, r.s, r.v)
        ELSE Res("mls: invalid resumption PSK usage", r.s, r.v))

resumptionPSKUsage_marshal(usage) == AddUint8(usage)

ZeroPreSharedKeyID ==
    [pskType |-> 0, pskID |-> <<>>, usage |-> 0, pskGroupID |-> <<>>,
     pskEpoch |-> Zero64, pskNonce |-> <<>>]

\* The tail of preSharedKeyID.unmarshal, after the switch: the nonce.  d is
\* the outcome of the reads of the switch's case.
preSharedKeyID_nonce(d) ==
    IF ~d.ok THEN Res(ErrUnexpectedEOF, d.s, d.v)
    ELSE Bind(fieldOpaqueVec(d, "pskNonce"), LAMBDA n :
            IF ~n.ok THEN Res(ErrUnexpectedEOF, n.s, n.v) ELSE Res(NoErr, n.s, n.v))

\* preSharedKeyID.unmarshal after the reset of its first line: i0 is the
\* target as the decoding starts.
preSharedKeyID_decode(i0, s) ==
    Bind(pskType_unmarshal(i0.pskType, s), LAMBDA t :
    Bind([i0 EXCEPT !.pskType = t.v], LAMBDA i1 :
        IF t.err # NoErr THEN Res(t.err, t.s, i1)
        ELSE IF i1.pskType = pskTypeExternal
             THEN preSharedKeyID_nonce(fieldOpaqueVec(Start(i1, t.s), "pskID"))
        ELSE IF i1.pskType = pskTypeResumption
             THEN Bind(resumptionPSKUsage_unmarshal(i1.usage, t.s), LAMBDA u :
                    IF u.err # NoErr THEN Res(u.err, u.s, [i1 EXCEPT !.usage = u.v])
                    ELSE preSharedKeyID_nonce(
                            fieldUint64(fieldOpaqueVec(Start([i1 EXCEPT !.usage = u.v], u.s),
                                                       "pskGroupID"), "pskEpoch")))
        ELSE Res(Panic, t.s, i1)))

\* The target with its content kept: the reset of line 118 left out.
preSharedKeyID_unmarshal_noReset(id, s) == preSharedKeyID_decode(id, s)

preSharedKeyID_unmarshal(id, s) == preSharedKeyID_decode(ZeroPreSharedKeyID, s)

\* marshal returns (bytes, err); the default branch of the switch panics.
preSharedKeyID_marshal(id) ==
    IF id.pskType = pskTypeExternal
    THEN [err |-> NoErr,
          b |-> pskType_marshal(id.pskType) \o writeOpaqueVec(id.pskID)
                \o writeOpaqueVec(id.pskNonce)]
    ELSE IF id.pskType = pskTypeResumption
    THEN [err |-> NoErr,
          b |-> pskType_marshal(id.pskType) \o resumptionPSKUsage_marshal(id.usage)
                \o writeOpaqueVec(id.pskGroupID) \o AddUint64(id.pskEpoch)
                \o writeOpaqueVec(id.pskNonce)]
    ELSE [err |-> Panic, b |-> pskType_marshal(id.pskType)]

pskLabel_marshal(label) ==
    Bind(preSharedKeyID_marshal(label.id), LAMBDA i :
        [err |-> i.err, b |-> i.b \o AddUint16(label.index) \o AddUint16(label.count)])

----------------------------------------------------------------------------
(* Structures whose content is opaque at this layer: one length-prefixed   *)
(* blob each (leafNode, and keyPackage around it, updatePath), and the     *)
(* HPKE ciphertext's two opaque vectors.                                   *)

\* unmarshal of a struct whose fields are read by one chain: d is the chain.
chainResult(d) == IF ~d.ok THEN Res(ErrUnexpectedEOF, d.s, d.v) ELSE Res(NoErr, d.s, d.v)

\* r decoded into field f of struct p: the struct and r's error.
Into(p, f, r) == Res(r.err, r.s, [p EXCEPT ![f] = r.v])

ZeroLeafNode == [content |-> <<>>]

leafNode_unmarshal(node, s) == chainResult(fieldOpaqueVec(Start(ZeroLeafNode, s), "content"))

ZeroKeyPackage == [leafNode |-> ZeroLeafNode]

keyPackage_unmarshal(pkg, s) ==
    Into(ZeroKeyPackage, "leafNode", leafNode_unmarshal(ZeroKeyPackage.leafNode, s))

ZeroUpdatePath == [content |-> <<>>]

updatePath_unmarshal(up, s) == chainResult(fieldOpaqueVec(Start(ZeroUpdatePath, s), "content"))

ZeroHpkeCiphertext == [kemOutput |-> <<>>, ciphertext |-> <<>>]

hpkeCiphertext_unmarshal(ct, s) ==
    chainResult(fieldOpaqueVec(fieldOpaqueVec(Start(ZeroHpkeCiphertext, s), "kemOutput"),
                               "ciphertext"))

----------------------------------------------------------------------------
(* group.go: proposals                                                     *)

proposalTypeAdd == 1
proposalTypeUpdate == 2
proposalTypeRemove == 3
proposalTypePSK == 4
proposalTypeReinit == 5
proposalTypeExternalInit == 6
proposalTypeGroupContextExtensions == 7

proposalTypes ==
    {proposalTypeAdd, proposalTypeUpdate, proposalTypeRemove, proposalTypePSK,
     proposalTypeReinit, proposalTypeExternalInit, proposalTypeGroupContextExtensions}

\* Every value that could be read is accepted: the switch of lines 27-32
\* left out.
proposalType_unmarshal_acceptAll(t, s) ==
    Bind(ReadUint16(s, t), LAMBDA r :
        IF ~r.ok THEN Res(ErrUnexpectedEOF, r.s, r.v) ELSE Res(NoErr, r.s, r.v))

proposalType_unmarshal(t, s) ==
    Bind(ReadUint16(s, t), LAMBDA r :
        IF ~r.ok THEN Res(ErrUnexpectedEOF, r.s, r.v)
        ELSE IF r.v \in proposalTypes THEN Res(NoErr, r.s, r.v)
        ELSE Res("mls: invalid proposal type", r.s, r.v))

ZeroAdd == [keyPackage |-> ZeroKeyPackage]

add_unmarshal(a, s) == Into(ZeroAdd, "keyPackage", keyPackage_unmarshal(ZeroAdd.keyPackage, s))

ZeroUpdate == [leafNode |-> ZeroLeafNode]

update_unmarshal(upd, s) == Into(ZeroUpdate, "leafNode", leafNode_unmarshal(ZeroUpdate.leafNode, s))

ZeroRemove == [removed |-> 0]

remove_unmarshal(rm, s) == chainResult(fieldUint32(Start(ZeroRemove, s), "removed"))

ZeroPreSharedKey == [psk |-> ZeroPreSharedKeyID]

preSharedKey_unmarshal(psk, s) ==
    Into(ZeroPreSharedKey, "psk", preSharedKeyID_unmarshal(ZeroPreSharedKey.psk, s))

ZeroReInit == [groupID |-> <<>>, version |-> 0, cipherSuite |-> 0, extensions |-> <<>>]

reInit_unmarshal(ri, s) ==
    Bind(fieldUint16(fieldUint16(fieldOpaqueVec(Start(ZeroReInit, s), "groupID"), "version"),
                     "cipherSuite"),
      LAMBDA d :
        IF ~d.ok THEN Res(ErrUnexpectedEOF, d.s, d.v)
        ELSE Bind(unmarshalExtensionVec(d.s), LAMBDA e :
                IF e.err # NoErr THEN Res(e.err, e.s, d.v)
                ELSE Res(NoErr, e.s, [d.v EXCEPT !.extensions = e.v])))

ZeroExternalInit == [kemOutput |-> <<>>]

externalInit_unmarshal(ei, s) ==
    chainResult(fieldOpaqueVec(Start(ZeroExternalInit, s), "kemOutput"))

ZeroGroupContextExtensions == [extensions |-> <<>>]

groupContextExtensions_unmarshal(exts, s) ==
    Bind(unmarshalExtensionVec(s), LAMBDA l :
        IF l.err # NoErr THEN Res(l.err, l.s, ZeroGroupContextExtensions)
        ELSE Res(NoErr, l.s, [extensions |-> l.v]))

ZeroProposal ==
    [proposalType |-> 0, add |-> <<>>, update |-> <<>>, remove |-> <<>>,
     preSharedKey |-> <<>>, reInit |-> <<>>, externalInit |-> <<>>,
     groupContextExtensions |-> <<>>]

\* `p.f = new(T); return p.f.unmarshal(s)`: the pointer is set whether or not
\* the variant decodes; r is the outcome of the variant's unmarshal.
Allocated(p, f, r) == Res(r.err, r.s, [p EXCEPT ![f] = <<r.v>>])

\* proposal.unmarshal after the reset of its first line: p0 is the target as
\* the decoding starts.
proposal_decode(p0, s) ==
    Bind(proposalType_unmarshal(p0.proposalType, s), LAMBDA t :
    Bind([p0 EXCEPT !.proposalType = t.v], LAMBDA p1 :
        IF t.err # NoErr THEN Res(t.err, t.s, p1)
        ELSE IF p1.proposalType = proposalTypeAdd
             THEN Allocated(p1, "add", add_unmarshal(ZeroAdd, t.s))
        ELSE IF p1.proposalType = proposalTypeUpdate
             THEN Allocated(p1, "update", update_unmarshal(ZeroUpdate, t.s))
        ELSE IF p1.proposalType = proposalTypeRemove
             THEN Allocated(p1, "remove", remove_unmarshal(ZeroRemove, t.s))
        ELSE IF p1.proposalType = proposalTypePSK
             THEN Allocated(p1, "preSharedKey", preSharedKey_unmarshal(ZeroPreSharedKey, t.s))
        ELSE IF p1.proposalType = proposalTypeReinit
             THEN Allocated(p1, "reInit", reInit_unmarshal(ZeroReInit, t.s))
        ELSE IF p1.proposalType = proposalTypeExternalInit
             THEN Allocated(p1, "externalInit", externalInit_unmarshal(ZeroExternalInit, t.s))
        ELSE IF p1.proposalType = proposalTypeGroupContextExtensions
             THEN Allocated(p1, "groupContextExtensions",
                            groupContextExtensions_unmarshal(ZeroGroupContextExtensions, t.s))
        ELSE Res(Panic, t.s, p1)))

\* The target with its content kept: the reset of line 47 left out.
proposal_unmarshal_noReset(prop, s) == proposal_decode(prop, s)

proposal_unmarshal(prop, s) == proposal_decode(ZeroProposal, s)

----------------------------------------------------------------------------
(* group.go: proposalOrRef and commit                                      *)

proposalOrRefTypeProposal == 1
proposalOrRefTypeReference == 2

proposalOrRefType_unmarshal(t, s) ==
    Bind(ReadUint8(s, t), LAMBDA r :
        IF ~r.ok THEN Res(ErrUnexpectedEOF, r.s, r.v)
        ELSE IF r.v \in {proposalOrRefTypeProposal, proposalOrRefTypeReference}
             THEN Res(NoErr, r.s, r.v)
        ELSE Res("mls: invalid proposal or ref type", r.s, r.v))

ZeroProposalOrRef == [typ |-> 0, proposal |-> <<>>, reference |-> <<>>]

\* proposalOrRef.unmarshal after the reset of its first line.
proposalOrRef_decode(p0, s) ==
    Bind(proposalOrRefType_unmarshal(p0.typ, s), LAMBDA t :
    Bind([p0 EXCEPT !.typ = t.v], LAMBDA p1 :
        IF t.err # NoErr THEN Res(t.err, t.s, p1)
        ELSE IF p1.typ = proposalOrRefTypeProposal
             THEN Allocated(p1, "proposal", proposal_unmarshal(ZeroProposal, t.s))
        ELSE IF p1.typ = proposalOrRefTypeReference
             THEN chainResult(fieldOpaqueVec(Start(p1, t.s), "reference"))
        ELSE Res(Panic, t.s, p1)))

\* The target with its content kept: the reset of line 196 left out.
proposalOrRef_unmarshal_noReset(propOrRef, s) == proposalOrRef_decode(propOrRef, s)

proposalOrRef_unmarshal(propOrRef, s) == proposalOrRef_decode(ZeroProposalOrRef, s)

ZeroCommit == [proposals |-> <<>>, path |-> <<>>]

\* readVector's loop over commit.unmarshal's closure: each element that
\* decodes is appended to c.proposals at once.
RECURSIVE commitProposalsLoop(_, _)
commitProposalsLoop(vec, proposals) ==
    IF vec = <<>> THEN Res(NoErr, vec, proposals)
    ELSE Bind(proposalOrRef_unmarshal(ZeroProposalOrRef, vec), LAMBDA r :
            IF r.err # NoErr THEN Res(r.err, r.s, proposals)
            ELSE commitProposalsLoop(r.s, Append(proposals, r.v)))

\* Lines 236-246: the optional path, after the proposals.
commit_path(c1, s) ==
    Bind(readOptional(s, FALSE), LAMBDA o :
        IF ~o.ok THEN Res(ErrUnexpectedEOF, o.s, c1)
        ELSE IF o.v THEN Allocated(c1, "path", updatePath_unmarshal(ZeroUpdatePath, o.s))
        ELSE Res(NoErr, o.s, c1))

commit_unmarshal(c, s) ==
    Bind(readVectorBytes(s), LAMBDA h :
        IF ~h.ok THEN Res(ErrUnexpectedEOF, h.s, ZeroCommit)
        ELSE Bind(commitProposalsLoop(h.v, ZeroCommit.proposals), LAMBDA l :
                IF l.err # NoErr THEN Res(l.err, h.s, [ZeroCommit EXCEPT !.proposals = l.v])
                ELSE commit_path([ZeroCommit EXCEPT !.proposals = l.v], h.s)))

----------------------------------------------------------------------------
(* group.go: groupInfo                                                     *)

ZeroGroupInfo ==
    [groupContext |-> ZeroGroupContext, extensions |-> <<>>, confirmationTag |-> <<>>,
     signer |-> 0, signature |-> <<>>]

\* When one of the three reads of line 270 fails, line 271 returns err: the
\* variable assigned at line 264 (e.err here), which is nil once line 265
\* has been passed.
groupInfo_unmarshal(info, s) ==
    Bind(groupContext_unmarshal(ZeroGroupInfo.groupContext, s), LAMBDA c :
    Bind([ZeroGroupInfo EXCEPT !.groupContext = c.v], LAMBDA i1 :
        IF c.err # NoErr THEN Res(c.err, c.s, i1)
        ELSE Bind(unmarshalExtensionVec(c.s), LAMBDA e :
                IF e.err # NoErr THEN Res(e.err, e.s, i1)
                ELSE Bind(fieldOpaqueVec(fieldUint32(fieldOpaqueVec(
                              Start([i1 EXCEPT !.extensions = e.v], e.s),
                              "confirmationTag"), "signer"), "signature"),
                       LAMBDA d : IF ~d.ok THEN Res(e.err, d.s, d.v)
                                  ELSE Res(NoErr, d.s, d.v)))))

groupInfo_marshalTBS(info) ==
    groupContext_marshal(info.groupContext) \o marshalExtensionVec(info.extensions)
    \o writeOpaqueVec(info.confirmationTag) \o AddUint32(info.signer)

groupInfo_marshal(info) == groupInfo_marshalTBS(info) \o writeOpaqueVec(info.signature)

----------------------------------------------------------------------------
(* group.go: groupSecrets, encryptedGroupSecrets, welcome                  *)

ZeroGroupSecrets == [joinerSecret |-> <<>>, pathSecret |-> <<>>, psks |-> <<>>]

RECURSIVE groupSecretsPsksLoop(_, _)
groupSecretsPsksLoop(vec, pskList) ==
    IF vec = <<>> THEN Res(NoErr, vec, pskList)
    ELSE Bind(preSharedKeyID_unmarshal(ZeroPreSharedKeyID, vec), LAMBDA r :
            IF r.err # NoErr THEN Res(r.err, r.s, pskList)
            ELSE groupSecretsPsksLoop(r.s, Append(pskList, r.v)))

\* Lines 309-316: the vector of PSK ids, each appended as it decodes.
groupSecrets_psks(g, s) ==
    Bind(readVectorBytes(s), LAMBDA h :
        IF ~h.ok THEN Res(ErrUnexpectedEOF, h.s, g)
        ELSE Bind(groupSecretsPsksLoop(h.v, g.psks), LAMBDA l :
                Res(l.err, h.s, [g EXCEPT !.psks = l.v])))

groupSecrets_unmarshal(sec, s) ==
    Bind(fieldOpaqueVec(Start(ZeroGroupSecrets, s), "joinerSecret"), LAMBDA j :
        IF ~j.ok THEN Res(ErrUnexpectedEOF, j.s, j.v)
        ELSE Bind(readOptional(j.s, FALSE), LAMBDA o :
                IF ~o.ok THEN Res(ErrUnexpectedEOF, o.s, j.v)
                ELSE Bind(IF o.v THEN fieldOpaqueVec(Start(j.v, o.s), "pathSecret")
                                 ELSE Start(j.v, o.s),
                       LAMBDA p : IF ~p.ok THEN Res(ErrUnexpectedEOF, p.s, p.v)
                                  ELSE groupSecrets_psks(p.v, p.s))))

ZeroEncryptedGroupSecrets == [newMember |-> <<>>, encryptedGroupSecrets |-> ZeroHpkeCiphertext]

encryptedGroupSecrets_unmarshal(sec, s) ==
    Bind(fieldOpaqueVec(Start(ZeroEncryptedGroupSecrets, s), "newMember"), LAMBDA n :
        IF ~n.ok THEN Res(ErrUnexpectedEOF, n.s, n.v)
        ELSE Into(n.v, "encryptedGroupSecrets",
                  hpkeCiphertext_unmarshal(n.v.encryptedGroupSecrets, n.s)))

ZeroWelcome == [cipherSuite |-> 0, secrets |-> <<>>, encryptedGroupInfo |-> <<>>]

RECURSIVE welcomeSecretsLoop(_, _)
welcomeSecretsLoop(vec, secrets) ==
    IF vec = <<>> THEN Res(NoErr, vec, secrets)
    ELSE Bind(encryptedGroupSecrets_unmarshal(ZeroEncryptedGroupSecrets, vec), LAMBDA r :
            IF r.err # NoErr THEN Res(r.err, r.s, secrets)
            ELSE welcomeSecretsLoop(r.s, Append(secrets, r.v)))

\* Lines 332-348: the vector of secrets, then the encrypted group info.
welcome_secrets(w1, s) ==
    Bind(readVectorBytes(s), LAMBDA h :
        IF ~h.ok THEN Res(ErrUnexpectedEOF, h.s, w1)
        ELSE Bind(welcomeSecretsLoop(h.v, w1.secrets), LAMBDA l :
                IF l.err # NoErr THEN Res(l.err, h.s, [w1 EXCEPT !.secrets = l.v])
                ELSE chainResult(fieldOpaqueVec(Start([w1 EXCEPT !.secrets = l.v], h.s),
                                                "encryptedGroupInfo"))))

welcome_unmarshal(wel, s) ==
    Bind(fieldUint16(Start(ZeroWelcome, s), "cipherSuite"), LAMBDA c :
        IF ~c.ok THEN Res(ErrUnexpectedEOF, c.s, c.v) ELSE welcome_secrets(c.v, c.s))

----------------
(* Wire inputs of the decoders: encodings of well-formed values, every     *)
(* prefix of them (truncation), every single-byte substitution from        *)
(* MutBytes, and every value of each enumerated tag in its place.          *)

MaxProposals == 2
MaxPSKs == 2
MaxSecrets == 2

Vec(body) == writeVarint(Len(body)) \o body

Prefixes(S) == UNION {{Take(b, n) : n \in 0..(Len(b) - 1)} : b \in S}

MutBytes == {0, 1, 2, 3, 9, 64, 127}

Mutations(S) == UNION {{[b EXCEPT ![i] = x] : i \in 1..Len(b), x \in MutBytes} : b \in S}

Corrupted(S) == S \cup Prefixes(S) \cup Mutations(S)

AllBytes == 0..255
AllUint16 == {hi * 256 + lo : hi \in {0, 1, 255}, lo \in AllBytes}

SeqsUpTo(S, n) == UNION {[1..k -> S] : k \in 0..n}

SampleExtensionVecs ==
    {<<>>, <<[extensionType |-> 2, extensionData |-> <<3>>]>>}

SamplePreSharedKeyIDs ==
    {[ZeroPreSharedKeyID EXCEPT !.pskType = pskTypeExternal, !.pskID = i, !.pskNonce = n] :
        i \in {<<>>, <<7>>}, n \in {<<>>, <<9>>}}
    \cup
    {[ZeroPreSharedKeyID EXCEPT !.pskType = pskTypeResumption, !.usage = u,
                                !.pskGroupID = <<5>>, !.pskEpoch = [hi |-> 0, lo |-> e],
                                !.pskNonce = <<9>>] :
        u \in {resumptionPSKUsageApplication, resumptionPSKUsageReinit,
               resumptionPSKUsageBranch}, e \in {0, 3}}

ValidPreSharedKeyIDWire == {preSharedKeyID_marshal(i).b : i \in SamplePreSharedKeyIDs}

\* What follows a pskType on the wire, for either type.
PskTails == {<<1, 7>> \o <<0>>,
             <<resumptionPSKUsageReinit>> \o <<1, 5>> \o AddUint64([hi |-> 0, lo |-> 3]) \o <<1, 9>>}

\* A preSharedKeyID with a pskType of T, or a resumption one with a usage of U.
PreSharedKeyIDWire(T, U) ==
    {<<t>> \o tail : t \in T, tail \in PskTails}
    \cup {<<pskTypeResumption, u>> \o <<1, 5>> \o AddUint64(Zero64) \o <<0>> : u \in U}

SweepPreSharedKeyID == PreSharedKeyIDWire(AllBytes, AllBytes)

PreSharedKeyIDInputs == Corrupted(ValidPreSharedKeyIDWire) \cup SweepPreSharedKeyID

SampleGroupContexts ==
    {[version |-> v, cipherSuite |-> 1, groupID |-> <<5>>, epoch |-> [hi |-> 0, lo |-> 3],
      treeHash |-> <<6, 6>>, confirmedTranscriptHash |-> <<>>, extensions |-> x] :
        v \in {protocolVersionMLS10, 2}, x \in SampleExtensionVecs}

ValidGroupContextWire == {groupContext_marshal(c) : c \in SampleGroupContexts}
GroupContextInputs == Corrupted(ValidGroupContextWire)

ValidProposalWire ==
    {AddUint16(proposalTypeAdd) \o Vec(<<5>>),
     AddUint16(proposalTypeUpdate) \o Vec(<<6>>),
     AddUint16(proposalTypeRemove) \o AddUint32(2),
     AddUint16(proposalTypeReinit) \o Vec(<<5>>) \o AddUint16(1) \o AddUint16(1)
        \o marshalExtensionVec(<<[extensionType |-> 2, extensionData |-> <<3>>]>>),
     AddUint16(proposalTypeExternalInit) \o Vec(<<4>>),
     AddUint16(proposalTypeGroupContextExtensions)
        \o marshalExtensionVec(<<[extensionType |-> 2, extensionData |-> <<3>>]>>)}
    \cup {AddUint16(proposalTypePSK) \o b : b \in ValidPreSharedKeyIDWire}

\* What follows a proposalType on the wire: bytes every variant can decode
\* (a four-byte removed index, a one-byte vector, an external PSK id).
ProposalTails == {<<0, 0, 0, 2>>, <<1, 7, 0>>}

\* A proposal with a proposalType of P, or a PSK proposal with tags of T, U.
ProposalWire(P, T, U) ==
    {AddUint16(t) \o tail : t \in P, tail \in ProposalTails}
    \cup {AddUint16(proposalTypePSK) \o b : b \in PreSharedKeyIDWire(T, U)}

SweepProposal == ProposalWire(AllUint16, AllBytes, AllBytes)

ProposalInputs == Corrupted(ValidProposalWire) \cup SweepProposal

ValidProposalOrRefWire ==
    {<<proposalOrRefTypeProposal>> \o b : b \in ValidProposalWire}
    \cup {<<proposalOrRefTypeReference>> \o Vec(r) : r \in {<<>>, <<8, 8>>}}

\* A proposalOrRef with a type of R, or one holding a proposal with tags of
\* P, T, U.
ProposalOrRefWire(R, P, T, U) ==
    {<<t>> \o tail : t \in R, tail \in {AddUint16(proposalTypeRemove) \o AddUint32(2), <<1, 8>>}}
    \cup {<<proposalOrRefTypeProposal>> \o b : b \in ProposalWire(P, T, U)}

SweepProposalOrRef == ProposalOrRefWire(AllBytes, AllUint16, AllBytes, AllBytes)

ProposalOrRefInputs == Corrupted(ValidProposalOrRefWire) \cup SweepProposalOrRef

\* The elements a sample commit is made of.
CommitElements ==
    {<<proposalOrRefTypeProposal>> \o AddUint16(proposalTypeRemove) \o AddUint32(2),
     <<proposalOrRefTypeProposal>> \o AddUint16(proposalTypeExternalInit) \o Vec(<<4>>),
     <<proposalOrRefTypeReference>> \o Vec(<<8, 8>>)}

CommitPaths == {<<0>>, <<1>> \o Vec(<<4, 4>>)}

ValidCommitWire ==
    {Vec(concatAll(es)) \o path : es \in SeqsUpTo(CommitElements, MaxProposals), path \in CommitPaths}

\* A commit whose last proposalOrRef has tags of R, P, T, U.
CommitWire(R, P, T, U) ==
    {Vec(concatAll(es) \o e) \o <<0>> :
        es \in SeqsUpTo(CommitElements, MaxProposals - 1), e \in ProposalOrRefWire(R, P, T, U)}

SweepCommit == CommitWire(AllBytes, AllUint16, AllBytes, AllBytes)

CommitInputs == Corrupted(ValidCommitWire) \cup SweepCommit

SampleGroupInfos ==
    {[groupContext |-> c, extensions |-> x, confirmationTag |-> tag, signer |-> n,
      signature |-> sig] :
        c \in SampleGroupContexts, x \in SampleExtensionVecs, tag \in {<<>>, <<4>>},
        n \in {0, 1}, sig \in {<<>>, <<7, 7>>}}

ValidGroupInfoWire == {groupInfo_marshal(i) : i \in SampleGroupInfos}
GroupInfoInputs == Corrupted(ValidGroupInfoWire)

GroupSecretsPsks ==
    {preSharedKeyID_marshal(i).b :
        i \in {x \in SamplePreSharedKeyIDs : x.pskNonce = <<9>> /\ x.usage \in {0, 2}
                                            /\ x.pskID = <<>> /\ x.pskEpoch.lo = 0}}

GroupSecretsHeads == {Vec(<<5>>) \o <<0>>, Vec(<<5>>) \o <<1>> \o Vec(<<6>>)}

ValidGroupSecretsWire ==
    {h \o Vec(concatAll(ps)) : h \in GroupSecretsHeads, ps \in SeqsUpTo(GroupSecretsPsks, MaxPSKs)}

\* A groupSecrets whose last PSK id has tags of T, U.
GroupSecretsWire(T, U) ==
    {Vec(<<5>>) \o <<0>> \o Vec(concatAll(ps) \o e) :
        ps \in SeqsUpTo(GroupSecretsPsks, MaxPSKs - 1), e \in PreSharedKeyIDWire(T, U)}

SweepGroupSecrets == GroupSecretsWire(AllBytes, AllBytes)

\* The four enumerated tags alone, each with something after it.
ProposalTypeInputs == {AddUint16(t) \o tail : t \in AllUint16, tail \in {<<>>, <<0>>}} \cup {<<>>, <<0>>}
ByteTagInputs == {<<t>> \o tail : t \in AllBytes, tail \in {<<>>, <<0>>}} \cup {<<>>}

GroupSecretsInputs == Corrupted(ValidGroupSecretsWire) \cup SweepGroupSecrets

WelcomeEntries == {Vec(<<r>>) \o Vec(<<4>>) \o Vec(<<6, 6>>) : r \in {1, 2}}

ValidWelcomeWire ==
    {AddUint16(1) \o Vec(concatAll(es)) \o Vec(g) :
        es \in SeqsUpTo(WelcomeEntries, MaxSecrets), g \in {<<>>, <<3, 3>>}}

WelcomeInputs == Corrupted(ValidWelcomeWire)

----------------------------------------------------------------------------
(* Targets a decoder may be handed: the zero value, or one that an earlier *)
(* decode has filled.                                                      *)

UsedPreSharedKeyID ==
    [pskType |-> pskTypeResumption, pskID |-> <<7>>, usage |-> resumptionPSKUsageBranch,
     pskGroupID |-> <<5>>, pskEpoch |-> [hi |-> 0, lo |-> 9], pskNonce |-> <<1>>]

UsedProposal ==
    [proposalType |-> proposalTypeRemove,
     add |-> <<[keyPackage |-> [leafNode |-> [content |-> <<5>>]]]>>,
     update |-> <<[leafNode |-> [content |-> <<6>>]]>>,
     remove |-> <<[removed |-> 2]>>,
     preSharedKey |-> <<[psk |-> UsedPreSharedKeyID]>>,
     reInit |-> <<ZeroReInit>>,
     externalInit |-> <<[kemOutput |-> <<4>>]>>,
     groupContextExtensions |-> <<[extensions |-> <<>>]>>]

UsedProposalOrRef ==
    [typ |-> proposalOrRefTypeProposal, proposal |-> <<UsedProposal>>, reference |-> <<8, 8>>]

----------------------------------------------------------------------------------------------------------------------------------------
(* The decoders as operations: one call of unmarshal on one target.  The   *)
(* call's arguments are drawn in the initial state.                        *)

Pending == Res("pending", <<>>, <<>>)
Returned == dOut.err # "pending"

decodeVars == <<dKind, dRaw, dPrior, dOut>>
pskVars == <<pskIDs, psks, pskOut>>
welcomeVars == <<w, ref, initKeyPriv, signerPub, w0, tamper, wOut>>
treeVars == <<tree, lastAdd>>

DecodeIdle == dKind = "none" /\ dRaw = <<>> /\ dPrior = <<>> /\ dOut = Pending

PskIdle == pskIDs = <<>> /\ psks = <<>> /\ pskOut = [fn |-> "idle"]

WelcomeIdle ==
    /\ w = ZeroWelcome /\ ref = <<>> /\ initKeyPriv = 0 /\ signerPub = 0
    /\ w0 = ZeroWelcome /\ tamper = [field |-> "none", entry |-> 0, at |-> 0]
    /\ wOut = [err |-> "idle", stages |-> <<>>]

TreeIdle == tree = <<>> /\ lastAdd = [n |-> 0, before |-> <<>>, leaf |-> <<>>]

DecodeInit ==
    /\ \/ dKind = "preSharedKeyID" /\ dRaw \in PreSharedKeyIDInputs
          /\ dPrior \in {ZeroPreSharedKeyID, UsedPreSharedKeyID}
       \/ dKind = "groupContext" /\ dRaw \in GroupContextInputs /\ dPrior = ZeroGroupContext
       \/ dKind = "proposal" /\ dRaw \in ProposalInputs
          /\ dPrior \in {ZeroProposal, UsedProposal}
       \/ dKind = "proposalOrRef" /\ dRaw \in ProposalOrRefInputs
          /\ dPrior \in {ZeroProposalOrRef, UsedProposalOrRef}
       \/ dKind = "commit" /\ dRaw \in CommitInputs /\ dPrior = ZeroCommit
       \/ dKind = "groupInfo" /\ dRaw \in GroupInfoInputs /\ dPrior = ZeroGroupInfo
       \/ dKind = "groupSecrets" /\ dRaw \in GroupSecretsInputs /\ dPrior = ZeroGroupSecrets
       \/ dKind = "welcome" /\ dRaw \in WelcomeInputs /\ dPrior = ZeroWelcome
       \/ dKind = "proposalType" /\ dRaw \in ProposalTypeInputs /\ dPrior = 0
       \/ dKind \in {"pskType", "resumptionPSKUsage", "proposalOrRefType"}
          /\ dRaw \in ByteTagInputs /\ dPrior = 0
    /\ dOut = Pending
    /\ PskIdle /\ WelcomeIdle /\ TreeIdle

UnmarshalPreSharedKeyID ==
    /\ dKind = "preSharedKeyID" /\ dOut.err = "pending"
    /\ dOut' = preSharedKeyID_unmarshal(dPrior, dRaw)
    /\ UNCHANGED <<dKind, dRaw, dPrior, pskVars, welcomeVars, treeVars>>

UnmarshalGroupContext ==
    /\ dKind = "groupContext" /\ dOut.err = "pending"
    /\ dOut' = groupContext_unmarshal(dPrior, dRaw)
    /\ UNCHANGED <<dKind, dRaw, dPrior, pskVars, welcomeVars, treeVars>>

UnmarshalProposal ==
    /\ dKind = "proposal" /\ dOut.err = "pending"
    /\ dOut' = proposal_unmarshal(dPrior, dRaw)
    /\ UNCHANGED <<dKind, dRaw, dPrior, pskVars, welcomeVars, treeVars>>

UnmarshalProposalOrRef ==
    /\ dKind = "proposalOrRef" /\ dOut.err = "pending"
    /\ dOut' = proposalOrRef_unmarshal(dPrior, dRaw)
    /\ UNCHANGED <<dKind, dRaw, dPrior, pskVars, welcomeVars, treeVars>>

UnmarshalCommit ==
    /\ dKind = "commit" /\ dOut.err = "pending"
    /\ dOut' = commit_unmarshal(dPrior, dRaw)
    /\ UNCHANGED <<dKind, dRaw, dPrior, pskVars, welcomeVars, treeVars>>

UnmarshalGroupInfo ==
    /\ dKind = "groupInfo" /\ dOut.err = "pending"
    /\ dOut' = groupInfo_unmarshal(dPrior, dRaw)
    /\ UNCHANGED <<dKind, dRaw, dPrior, pskVars, welcomeVars, treeVars>>

UnmarshalGroupSecrets ==
    /\ dKind = "groupSecrets" /\ dOut.err = "pending"
    /\ dOut' = groupSecrets_unmarshal(dPrior, dRaw)
    /\ UNCHANGED <<dKind, dRaw, dPrior, pskVars, welcomeVars, treeVars>>

UnmarshalWelcome ==
    /\ dKind = "welcome" /\ dOut.err = "pending"
    /\ dOut' = welcome_unmarshal(dPrior, dRaw)
    /\ UNCHANGED <<dKind, dRaw, dPrior, pskVars, welcomeVars, treeVars>>

UnmarshalProposalType ==
    /\ dKind = "proposalType" /\ dOut.err = "pending"
    /\ dOut' = proposalType_unmarshal(dPrior, dRaw)
    /\ UNCHANGED <<dKind, dRaw, dPrior, pskVars, welcomeVars, treeVars>>

UnmarshalPskType ==
    /\ dKind = "pskType" /\ dOut.err = "pending"
    /\ dOut' = pskType_unmarshal(dPrior, dRaw)
    /\ UNCHANGED <<dKind, dRaw, dPrior, pskVars, welcomeVars, treeVars>>

UnmarshalResumptionPSKUsage ==
    /\ dKind = "resumptionPSKUsage" /\ dOut.err = "pending"
    /\ dOut' = resumptionPSKUsage_unmarshal(dPrior, dRaw)
    /\ UNCHANGED <<dKind, dRaw, dPrior, pskVars, welcomeVars, treeVars>>

UnmarshalProposalOrRefType ==
    /\ dKind = "proposalOrRefType" /\ dOut.err = "pending"
    /\ dOut' = proposalOrRefType_unmarshal(dPrior, dRaw)
    /\ UNCHANGED <<dKind, dRaw, dPrior, pskVars, welcomeVars, treeVars>>

DecodeNext ==
    \/ UnmarshalProposalType
    \/ UnmarshalPskType
    \/ UnmarshalResumptionPSKUsage
    \/ UnmarshalProposalOrRefType
    \/ UnmarshalPreSharedKeyID
    \/ UnmarshalGroupContext
    \/ UnmarshalProposal
    \/ UnmarshalProposalOrRef
    \/ UnmarshalCommit
    \/ UnmarshalGroupInfo
    \/ UnmarshalGroupSecrets
    \/ UnmarshalWelcome

SpecDecode == DecodeInit /\ [][DecodeNext]_vars

----------------------------------------------------------------------------
(* Claims about the decoders, checked under SpecDecode                     *)

Uint16Of(s) == s[1] * 256 + s[2]

EnumErrors ==
    {"mls: invalid proposal type", "mls: invalid PSK type",
     "mls: invalid resumption PSK usage", "mls: invalid proposal or ref type"}

\* Wire data that holds a tag outside its enumerated set where the decoder
\* reads that tag, inside each of the enclosing structures.
BadPreSharedKeyIDWire == PreSharedKeyIDWire(AllBytes \ {1, 2}, AllBytes \ {1, 2, 3})
BadProposalWire == ProposalWire(AllUint16 \ (1..7), AllBytes \ {1, 2}, AllBytes \ {1, 2, 3})
BadProposalOrRefWire ==
    ProposalOrRefWire(AllBytes \ {1, 2}, AllUint16 \ (1..7), AllBytes \ {1, 2}, AllBytes \ {1, 2, 3})
BadCommitWire ==
    CommitWire(AllBytes \ {1, 2}, AllUint16 \ (1..7), AllBytes \ {1, 2}, AllBytes \ {1, 2, 3})
BadGroupSecretsWire == GroupSecretsWire(AllBytes \ {1, 2}, AllBytes \ {1, 2, 3})

PskTagsInSet(id) ==
    /\ id.pskType \in {1, 2}
    /\ id.pskType = 2 => id.usage \in {1, 2, 3}

ProposalTagsInSet(prop) ==
    /\ prop.proposalType \in 1..7
    /\ prop.preSharedKey # <<>> => PskTagsInSet(prop.preSharedKey[1].psk)

ProposalOrRefTagsInSet(por) ==
    /\ por.typ \in {1, 2}
    /\ por.proposal # <<>> => ProposalTagsInSet(por.proposal[1])

\* C6: a proposalType, pskType, resumptionPSKUsage or proposalOrRefType
\* outside its enumerated set is answered with the decode error of that
\* enumeration, by the tag's own decoder and by every decoder of a structure
\* that holds it; a decode that succeeds holds only tags of the enumerated
\* sets, as they were on the wire; and no decoder reaches its unreachable
\* branch.
C6_UnknownEnumRejected ==
    Returned =>
        /\ (dKind = "proposalType" /\ Len(dRaw) >= 2 /\ Uint16Of(dRaw) \notin 1..7)
              => dOut.err = "mls: invalid proposal type"
        /\ (dKind = "pskType" /\ Len(dRaw) >= 1 /\ dRaw[1] \notin {1, 2})
              => dOut.err = "mls: invalid PSK type"
        /\ (dKind = "resumptionPSKUsage" /\ Len(dRaw) >= 1 /\ dRaw[1] \notin {1, 2, 3})
              => dOut.err = "mls: invalid resumption PSK usage"
        /\ (dKind = "proposalOrRefType" /\ Len(dRaw) >= 1 /\ dRaw[1] \notin {1, 2})
              => dOut.err = "mls: invalid proposal or ref type"
        /\ (dKind = "proposalType" /\ dOut.err = NoErr) => dOut.v = Uint16Of(dRaw)
        /\ (dKind \in {"pskType", "resumptionPSKUsage", "proposalOrRefType"} /\ dOut.err = NoErr)
              => dOut.v = dRaw[1]
        /\ (dKind = "preSharedKeyID" /\ dRaw \in BadPreSharedKeyIDWire) => dOut.err \in EnumErrors
        /\ (dKind = "proposal" /\ dRaw \in BadProposalWire) => dOut.err \in EnumErrors
        /\ (dKind = "proposalOrRef" /\ dRaw \in BadProposalOrRefWire) => dOut.err \in EnumErrors
        /\ (dKind = "commit" /\ dRaw \in BadCommitWire) => dOut.err \in EnumErrors
        /\ (dKind = "groupSecrets" /\ dRaw \in BadGroupSecretsWire) => dOut.err \in EnumErrors
        /\ (dKind = "preSharedKeyID" /\ dOut.err = NoErr) => PskTagsInSet(dOut.v)
        /\ (dKind = "proposal" /\ dOut.err = NoErr) => ProposalTagsInSet(dOut.v)
        /\ (dKind = "proposalOrRef" /\ dOut.err = NoErr) => ProposalOrRefTagsInSet(dOut.v)
        /\ (dKind = "commit" /\ dOut.err = NoErr)
              => \A i \in 1..Len(dOut.v.proposals) : ProposalOrRefTagsInSet(dOut.v.proposals[i])
        /\ (dKind = "groupSecrets" /\ dOut.err = NoErr)
              => \A i \in 1..Len(dOut.v.psks) : PskTagsInSet(dOut.v.psks[i])
        /\ dOut.err # Panic

\* A commit whose second proposalOrRef holds a proposal of a type outside
\* 1..7 has been decoded and refused.
C6_Witness ==
    /\ Returned /\ dKind = "commit" /\ dRaw \in BadCommitWire
    /\ dOut.err = "mls: invalid proposal type"
    /\ Len(dOut.v.proposals) = 1

TruncatedGroupInfoWire == Prefixes({groupInfo_marshal(i) : i \in SampleGroupInfos})

\* C7: a groupInfo cut short anywhere (a strict prefix of an encoding) is
\* answered with an error, never with success.
C7_TruncatedGroupInfoFails ==
    (Returned /\ dKind = "groupInfo" /\ dRaw \in TruncatedGroupInfoWire) => dOut.err # NoErr

ZeroOf(kind) ==
    CASE kind = "commit" -> ZeroCommit
      [] kind = "welcome" -> ZeroWelcome
      [] kind = "groupSecrets" -> ZeroGroupSecrets
      [] kind = "groupInfo" -> ZeroGroupInfo
      [] kind = "groupContext" -> ZeroGroupContext
      [] kind = "proposal" -> ZeroProposal
      [] kind = "preSharedKeyID" -> ZeroPreSharedKeyID

\* C8: when unmarshal of a commit, welcome, groupSecrets, groupInfo,
\* groupContext, proposal or preSharedKeyID returns an error, the target
\* holds nothing of what was decoded before the failure: it is the zero value.
C8_NoPartialStateOnError ==
    (/\ Returned
     /\ dKind \in {"commit", "welcome", "groupSecrets", "groupInfo", "groupContext",
                   "proposal", "preSharedKeyID"}
     /\ dOut.err # NoErr)
        => dOut.v = ZeroOf(dKind)

VariantFields ==
    {"add", "update", "remove", "preSharedKey", "reInit", "externalInit",
     "groupContextExtensions"}

VariantOf(t) ==
    CASE t = 1 -> "add" [] t = 2 -> "update" [] t = 3 -> "remove" [] t = 4 -> "preSharedKey"
      [] t = 5 -> "reInit" [] t = 6 -> "externalInit" [] t = 7 -> "groupContextExtensions"
      [] OTHER -> "none"

ExactlyTheVariant(prop) ==
    \A f \in VariantFields : (prop[f] # <<>>) <=> (f = VariantOf(prop.proposalType))

ExactlyThePayload(por) ==
    /\ por.typ = 1 => (por.proposal # <<>> /\ por.reference = <<>>
                       /\ ExactlyTheVariant(por.proposal[1]))
    /\ por.typ = 2 => por.proposal = <<>>

ExactlyThePskFields(id) ==
    /\ id.pskType = 1 => (id.usage = 0 /\ id.pskGroupID = <<>> /\ id.pskEpoch = Zero64)
    /\ id.pskType = 2 => id.pskID = <<>>

\* C10: after a decode of a tagged union that succeeds, whatever the target
\* held before, exactly the payload the tag selects is present: one variant
\* pointer of a proposal, the proposal or the reference of a proposalOrRef,
\* the external or the resumption fields of a preSharedKeyID.
C10_OnlyActiveVariant ==
    (Returned /\ dOut.err = NoErr) =>
        /\ dKind = "proposal" => ExactlyTheVariant(dOut.v)
        /\ dKind = "proposalOrRef" => ExactlyThePayload(dOut.v)
        /\ dKind = "preSharedKeyID" => ExactlyThePskFields(dOut.v)
        /\ dKind = "commit" => \A i \in 1..Len(dOut.v.proposals) : ExactlyThePayload(dOut.v.proposals[i])

\* An add proposal has been decoded into a target that held every variant.
C10_Witness ==
    /\ Returned /\ dKind = "proposal" /\ dPrior = UsedProposal /\ dOut.err = NoErr
    /\ dOut.v.proposalType = proposalTypeAdd /\ dOut.v.add # <<>>

----------------------------------------------------------------------------
(* The cipher suite's KDF, as terms: the output of a call is the record of *)
(* the call, so that two outputs are equal exactly when the calls were.    *)
(* A byte string that enters the KDF is the term Bytes(b).                 *)

Bytes(b) == [fn |-> "bytes", b |-> b]
Nil == [fn |-> "nil"]

ExtractSize == 32

\* kdf.Extract(secret, salt): the input keying material first, the salt second.
kdf_Extract(secret, salt) == [fn |-> "Extract", secret |-> secret, salt |-> salt]

\* cs.expandWithLabel(secret, label, context, length) returns (bytes, err).
expandWithLabel(secret, label, context, length) ==
    [err |-> NoErr,
     v |-> [fn |-> "ExpandWithLabel", secret |-> secret, label |-> label,
            context |-> context, length |-> length]]

\* cs.deriveSecret(secret, label): expandWithLabel with no context, to the
\* extract size.
deriveSecret(secret, label) == expandWithLabel(secret, label, <<>>, ExtractSize)

----------------------------------------------------------------------------
(* key_schedule.go: extractPSKSecret.  The outcome is the secret, the      *)
(* error, and the calls made on the KDF and the label encoder, in order.   *)

PskReturn(secret, error, calls) == [secret |-> secret, err |-> error, calls |-> calls]

CountMismatch == "mls: got PSK IDs and PSKs, want same number"

\* The loop of lines 171-190 from index i (0-based) on.
RECURSIVE extractPSKLoop(_, _, _, _, _, _)
extractPSKLoop(ids, secrets, zero, i, pskSecret, calls) ==
    IF i >= Len(ids) THEN PskReturn(pskSecret, NoErr, calls)
    ELSE Bind(kdf_Extract(secrets[i + 1], zero), LAMBDA pskExtracted :
         Bind(pskLabel_marshal([id |-> ids[i + 1], index |-> i, count |-> Len(ids)]),
              LAMBDA rawPSKLabel :
            IF rawPSKLabel.err # NoErr
            THEN PskReturn(Nil, rawPSKLabel.err, calls \o <<"Extract", "marshal">>)
            ELSE Bind(expandWithLabel(pskExtracted, "derived psk", rawPSKLabel.b, ExtractSize),
                      LAMBDA pskInput :
                    IF pskInput.err # NoErr
                    THEN PskReturn(Nil, pskInput.err,
                                   calls \o <<"Extract", "marshal", "expandWithLabel">>)
                    ELSE extractPSKLoop(ids, secrets, zero, i + 1,
                                        kdf_Extract(pskSecret, pskInput.v),
                                        calls \o <<"Extract", "marshal", "expandWithLabel",
                                                   "Extract">>))))

Zeros(n) == [i \in 1..n |-> 0]

\* The count check as `>`: more PSKs than ids pass it.
extractPSKSecret_checkGreater(cs, ids, secrets) ==
    IF Len(ids) > Len(secrets) THEN PskReturn(Nil, CountMismatch, <<>>)
    ELSE extractPSKLoop(ids, secrets, Bytes(Zeros(ExtractSize)), 0,
                        Bytes(Zeros(ExtractSize)), <<>>)

\* The running secret started anew at every step: line 189 extracting from
\* zero instead of pskSecret.
extractPSKSecret_noChain(cs, ids, secrets) ==
    IF Len(ids) # Len(secrets) THEN PskReturn(Nil, CountMismatch, <<>>)
    ELSE IF Len(ids) = 0 THEN PskReturn(Bytes(Zeros(ExtractSize)), NoErr, <<>>)
    ELSE extractPSKLoop(ids, secrets, Bytes(Zeros(ExtractSize)), Len(ids) - 1,
                        Bytes(Zeros(ExtractSize)), <<>>)

extractPSKSecret(cs, ids, secrets) ==
    IF Len(ids) # Len(secrets) THEN PskReturn(Nil, CountMismatch, <<>>)
    ELSE extractPSKLoop(ids, secrets, Bytes(Zeros(ExtractSize)), 0,
                        Bytes(Zeros(ExtractSize)), <<>>)

PskIDSamples ==
    {[ZeroPreSharedKeyID EXCEPT !.pskType = pskTypeExternal, !.pskID = <<7>>, !.pskNonce = <<9>>],
     [ZeroPreSharedKeyID EXCEPT !.pskType = pskTypeExternal, !.pskID = <<8>>, !.pskNonce = <<9>>],
     [ZeroPreSharedKeyID EXCEPT !.pskType = pskTypeResumption,
                                !.usage = resumptionPSKUsageApplication,
                                !.pskGroupID = <<5>>, !.pskEpoch = [hi |-> 0, lo |-> 3],
                                !.pskNonce = <<9>>]}

PskSamples == {Bytes(<<1, 1>>), Bytes(<<2, 2>>)}

PskNotCalled == [fn |-> "not called"]

PskInit ==
    /\ pskIDs \in SeqsUpTo(PskIDSamples, MaxPSKs)
    /\ psks \in SeqsUpTo(PskSamples, MaxPSKs)
    /\ pskOut = PskNotCalled
    /\ DecodeIdle /\ WelcomeIdle /\ TreeIdle

ExtractPSKSecret ==
    /\ pskOut = PskNotCalled
    /\ pskOut' = extractPSKSecret(1, pskIDs, psks)
    /\ UNCHANGED <<pskIDs, psks, decodeVars, welcomeVars, treeVars>>

PskNext == ExtractPSKSecret

SpecPSK == PskInit /\ [][PskNext]_vars

PskReturned == pskOut # PskNotCalled

\* The serialized pskLabel of entry i (1-based) of n: the id, then the
\* 0-based index and the count, 16 bits each.
LabelBytes(id, i, n) ==
    preSharedKeyID_marshal(id).b \o <<(i - 1) \div 256, (i - 1) % 256>> \o <<n \div 256, n % 256>>

\* The intermediate of entry i: the PSK extracted against the all-zero salt,
\* expanded under "derived psk" and the label to the extract size.
Intermediate(i) ==
    [fn |-> "ExpandWithLabel",
     secret |-> [fn |-> "Extract", secret |-> psks[i], salt |-> Bytes(Zeros(ExtractSize))],
     label |-> "derived psk", context |-> LabelBytes(pskIDs[i], i, Len(pskIDs)),
     length |-> ExtractSize]

\* The chain with the running secret as the salt of the fold.
RECURSIVE ChainRunningAsSalt(_)
ChainRunningAsSalt(k) ==
    IF k = 0 THEN Bytes(Zeros(ExtractSize))
    ELSE [fn |-> "Extract", secret |-> Intermediate(k), salt |-> ChainRunningAsSalt(k - 1)]

\* The chain with the intermediate as the salt of the fold.
RECURSIVE ChainIntermediateAsSalt(_)
ChainIntermediateAsSalt(k) ==
    IF k = 0 THEN Bytes(Zeros(ExtractSize))
    ELSE [fn |-> "Extract", secret |-> ChainIntermediateAsSalt(k - 1), salt |-> Intermediate(k)]

\* C4 as stated: for lists of equal length the secret returned is the chain
\* whose fold takes the running secret as salt and the intermediate as input
\* keying material.
C4_ChainRunningSecretAsSalt ==
    (PskReturned /\ Len(pskIDs) = Len(psks))
        => (pskOut.err = NoErr /\ pskOut.secret = ChainRunningAsSalt(Len(pskIDs)))

\* C4 amended: the fold takes the intermediate as salt and the running
\* secret as input keying material.
C4_ChainIntermediateAsSalt ==
    (PskReturned /\ Len(pskIDs) = Len(psks))
        => (pskOut.err = NoErr /\ pskOut.secret = ChainIntermediateAsSalt(Len(pskIDs)))

\* Two PSKs have been chained.
C4_Witness ==
    /\ PskReturned /\ Len(pskIDs) = 2 /\ Len(psks) = 2 /\ pskIDs[1] # pskIDs[2]
    /\ pskOut.err = NoErr /\ pskOut.secret.fn = "Extract"

\* C5: with lists of different lengths the call returns the count-mismatch
\* error and no secret, having made no KDF call and serialized no label.
C5_CountMismatchBeforeKDF ==
    (PskReturned /\ Len(pskIDs) # Len(psks))
        => (pskOut.err = CountMismatch /\ pskOut.secret = Nil /\ pskOut.calls = <<>>)

\* One id and two PSKs have been refused.
C5_Witness ==
    /\ PskReturned /\ Len(pskIDs) = 1 /\ Len(psks) = 2
    /\ pskOut.err = CountMismatch

----------------------------------------------------------------------------
(* The cipher suite's HPKE, AEAD and signature, as terms.  A ciphertext is *)
(* the record of the call that sealed it, with the 1-based position of a   *)
(* byte flipped in it since (0: none); opening succeeds exactly when the   *)
(* ciphertext is intact and every input equals the one it was sealed with. *)
(* A private key and its public key are the same small number.             *)

PublicKey(priv) == priv

ErrOpen == "hpke: message authentication failed"

\* cs.decryptWithLabel(priv, label, context, kemOutput, ciphertext) returns
\* (plaintext, err).
decryptWithLabel(priv, label, context, kemOutput, ciphertext) ==
    IF /\ kemOutput.flip = 0 /\ ciphertext.flip = 0
       /\ kemOutput.pub = PublicKey(priv) /\ ciphertext.pub = kemOutput.pub
       /\ ciphertext.label = label /\ ciphertext.context = context
    THEN [err |-> NoErr, v |-> ciphertext.pt]
    ELSE [err |-> ErrOpen, v |-> <<>>]

NonceSize == 12
KeySize == 16

\* aead.New(key) returns (cipher, err); the cipher is its key.
aead_New(key) == [err |-> NoErr, v |-> key]

ErrAead == "cipher: message authentication failed"

\* welcomeCipher.Open(nil, nonce, ciphertext, additionalData)
aead_Open(cipher, nonce, ciphertext, additionalData) ==
    IF /\ ciphertext.flip = 0 /\ ciphertext.key = cipher /\ ciphertext.nonce = nonce
       /\ ciphertext.aad = additionalData
    THEN [err |-> NoErr, v |-> ciphertext.pt]
    ELSE [err |-> ErrAead, v |-> <<>>]

RECURSIVE Digest(_)
Digest(msg) == IF msg = <<>> THEN 0 ELSE (Head(msg) + 3 * Digest(Tail(msg))) % 128

LabelCode(label) == IF label = "GroupInfoTBS" THEN 71 ELSE 0

\* The one signature of msg under label that the key's owner produces.
SigBytes(key, label, msg) == <<key, LabelCode(label), Digest(msg)>>

\* cs.verifyWithLabel(pub, label, msg, signature)
verifyWithLabel(pub, label, msg, signature) == signature = SigBytes(pub, label, msg)

ErrExcess == "mls: input contains excess bytes"

\* unmarshal(raw, v), given the outcome r of v.unmarshal on raw: input left
\* over after a decode that returned nil is an error.
unmarshal(r) == IF r.err = NoErr /\ r.s # <<>> THEN Res(ErrExcess, r.s, r.v) ELSE r

----------------------------------------------------------------------------
(* group.go: welcome.findSecret and welcome.process.  The outcome of       *)
(* process is its error and the stages it entered, in order.               *)

ErrNotFound == "mls: encrypted group secrets not found for provided key package ref"
ErrPSK == "TODO: welcome.process with psks"
ErrSignature == "mls: group info signature verification failed"

StageOrder ==
    <<"lookup", "decrypt-secrets", "psk-gate", "derive", "decrypt-groupInfo",
      "verify-signature">>

Stopped(error, n) == [err |-> error, stages |-> Take(StageOrder, n)]

\* The entry of the first match, as a pointer: <<>> is nil.
RECURSIVE findSecretFrom(_, _, _)
findSecretFrom(welcome, r, i) ==
    IF i > Len(welcome.secrets) THEN <<>>
    ELSE IF welcome.secrets[i].newMember = r THEN <<welcome.secrets[i]>>
    ELSE findSecretFrom(welcome, r, i + 1)

\* The first entry whatever its reference.
findSecret_first(welcome, r) ==
    IF welcome.secrets = <<>> THEN <<>> ELSE <<welcome.secrets[1]>>

findSecret(welcome, r) == findSecretFrom(welcome, r, 1)

\* Lines 368-375: the group secrets of the entry, decrypted and decoded.
process_groupSecrets(welcome, sec, priv) ==
    Bind(decryptWithLabel(priv, "Welcome", welcome.encryptedGroupInfo,
                          sec.encryptedGroupSecrets.kemOutput,
                          sec.encryptedGroupSecrets.ciphertext),
         LAMBDA rawGroupSecrets :
            IF rawGroupSecrets.err # NoErr
            THEN Res(rawGroupSecrets.err, <<>>, ZeroGroupSecrets)
            ELSE unmarshal(groupSecrets_unmarshal(ZeroGroupSecrets, rawGroupSecrets.v)))

\* The gate never closing.
process_pskGate_open(secrets) == FALSE

\* Line 377: whether the PSK gate stops the call.
process_pskGate(secrets) == Len(secrets.psks) > 0

\* Lines 381-398: the welcome nonce and key from the joiner secret.
process_welcomeKey(secrets) ==
    Bind(kdf_Extract(Bytes(Zeros(ExtractSize)), Bytes(secrets.joinerSecret)),
         LAMBDA extractedJoinerSecret :
    Bind(deriveSecret(extractedJoinerSecret, "welcome"), LAMBDA welcomeSecret :
        IF welcomeSecret.err # NoErr THEN [err |-> welcomeSecret.err, nonce |-> Nil, key |-> Nil]
        ELSE Bind(expandWithLabel(welcomeSecret.v, "nonce", <<>>, NonceSize),
                  LAMBDA welcomeNonce :
                IF welcomeNonce.err # NoErr
                THEN [err |-> welcomeNonce.err, nonce |-> Nil, key |-> Nil]
                ELSE Bind(expandWithLabel(welcomeSecret.v, "key", <<>>, KeySize),
                          LAMBDA welcomeKey :
                        IF welcomeKey.err # NoErr
                        THEN [err |-> welcomeKey.err, nonce |-> Nil, key |-> Nil]
                        ELSE [err |-> NoErr, nonce |-> welcomeNonce.v,
                              key |-> welcomeKey.v]))))

\* Lines 400-412: the group info, decrypted and decoded.
process_groupInfo(welcome, k) ==
    Bind(aead_New(k.key), LAMBDA welcomeCipher :
        IF welcomeCipher.err # NoErr THEN Res(welcomeCipher.err, <<>>, ZeroGroupInfo)
        ELSE Bind(aead_Open(welcomeCipher.v, k.nonce, welcome.encryptedGroupInfo, <<>>),
                  LAMBDA rawGroupInfo :
                IF rawGroupInfo.err # NoErr THEN Res(rawGroupInfo.err, <<>>, ZeroGroupInfo)
                ELSE unmarshal(groupInfo_unmarshal(ZeroGroupInfo, rawGroupInfo.v))))

\* The signature not looked at.
process_verifySignature_skip(info, pub) == TRUE

\* Lines 414-420: the signature over the to-be-signed part of the group info.
process_verifySignature(info, pub) ==
    verifyWithLabel(pub, "GroupInfoTBS", groupInfo_marshalTBS(info), info.signature)

welcome_process(welcome, r, priv, pub) ==
    Bind(findSecret(welcome, r), LAMBDA sec :
        IF sec = <<>> THEN Stopped(ErrNotFound, 1)
        ELSE Bind(process_groupSecrets(welcome, sec[1], priv), LAMBDA secrets :
            IF secrets.err # NoErr THEN Stopped(secrets.err, 2)
            ELSE IF process_pskGate(secrets.v) THEN Stopped(ErrPSK, 3)
            ELSE Bind(process_welcomeKey(secrets.v), LAMBDA k :
                IF k.err # NoErr THEN Stopped(k.err, 4)
                ELSE Bind(process_groupInfo(welcome, k), LAMBDA info :
                    IF info.err # NoErr THEN Stopped(info.err, 5)
                    ELSE IF ~process_verifySignature(info.v, pub)
                         THEN Stopped(ErrSignature, 6)
                         ELSE Stopped(NoErr, 6)))))

----------------------------------------------------------------------------
(* The welcomes process is called on: built as a sender builds them, then  *)
(* with at most one byte flipped.                                          *)

MaxFlipAt == 2

Keys == {1, 2}
WelcomeRefs == {<<1>>, <<2>>}
Joiners == {<<5>>, <<6>>}

\* The init key of the key package a reference names.
KeyOfRef(r) == r[1]

WelcomePsk ==
    [ZeroPreSharedKeyID EXCEPT !.pskType = pskTypeExternal, !.pskID = <<7>>, !.pskNonce = <<9>>]

\* The group secrets a sender seals: no path secret, up to MaxPSKs PSK ids.
GroupSecretsSamples ==
    {[joinerSecret |-> <<5>>, pathSecret |-> <<>>, psks |-> ps] :
        ps \in SeqsUpTo({WelcomePsk}, MaxPSKs)}

GroupSecretsBytes(g) ==
    Vec(g.joinerSecret) \o <<0>>
    \o Vec(concatAll([i \in 1..Len(g.psks) |-> preSharedKeyID_marshal(g.psks[i]).b]))

\* Well-formed plaintexts, one cut short and one with a byte too many.
GroupSecretsPlain ==
    {GroupSecretsBytes(g) : g \in GroupSecretsSamples}
    \cup {Vec(<<5>>) \o <<0>>, Vec(<<5>>) \o <<0, 0, 0>>}

WelcomeGroupInfo ==
    [groupContext |-> [version |-> protocolVersionMLS10, cipherSuite |-> 1, groupID |-> <<5>>,
                       epoch |-> [hi |-> 0, lo |-> 3], treeHash |-> <<6, 6>>,
                       confirmedTranscriptHash |-> <<>>, extensions |-> <<>>],
     extensions |-> <<>>, confirmationTag |-> <<4>>, signer |-> 0, signature |-> <<>>]

FlipByte(b) == IF b % 2 = 0 THEN b + 1 ELSE b - 1

FlipAt(bytes, at) == [i \in 1..Len(bytes) |-> IF i = at THEN FlipByte(bytes[i]) ELSE bytes[i]]

GroupInfoVariants == {"signed by 1", "signed by 2", "no tag", "no signature", "excess"}

Signed(variant) == variant \in {"signed by 1", "signed by 2"}

\* The signed group info, with byte `at` of the signature flipped (0: none).
SignedGroupInfo(key, at) ==
    groupInfo_marshal([WelcomeGroupInfo EXCEPT
        !.signature = FlipAt(SigBytes(key, "GroupInfoTBS",
                                      groupInfo_marshalTBS(WelcomeGroupInfo)), at)])

GroupInfoPlain(variant, at) ==
    IF variant = "signed by 1" THEN SignedGroupInfo(1, at)
    ELSE IF variant = "signed by 2" THEN SignedGroupInfo(2, at)
    ELSE IF variant = "no tag"
    THEN groupContext_marshal(WelcomeGroupInfo.groupContext) \o marshalExtensionVec(<<>>)
    ELSE IF variant = "no signature" THEN groupInfo_marshalTBS(WelcomeGroupInfo)
    ELSE SignedGroupInfo(1, 0) \o <<0>>

WelcomeSecretOf(joiner) ==
    [fn |-> "ExpandWithLabel",
     secret |-> [fn |-> "Extract", secret |-> Bytes(Zeros(ExtractSize)), salt |-> Bytes(joiner)],
     label |-> "welcome", context |-> <<>>, length |-> ExtractSize]

WelcomeKeyOf(joiner) ==
    [fn |-> "ExpandWithLabel", secret |-> WelcomeSecretOf(joiner), label |-> "key",
     context |-> <<>>, length |-> KeySize]

WelcomeNonceOf(joiner) ==
    [fn |-> "ExpandWithLabel", secret |-> WelcomeSecretOf(joiner), label |-> "nonce",
     context |-> <<>>, length |-> NonceSize]

SealGroupInfo(joiner, plain) ==
    [fn |-> "aeadSeal", key |-> WelcomeKeyOf(joiner), nonce |-> WelcomeNonceOf(joiner),
     aad |-> <<>>, pt |-> plain, flip |-> 0]

SealGroupSecrets(r, sealed, plain) ==
    [newMember |-> r,
     encryptedGroupSecrets |->
        [kemOutput |-> [fn |-> "kem", pub |-> KeyOfRef(r), flip |-> 0],
         ciphertext |-> [fn |-> "hpkeSeal", pub |-> KeyOfRef(r), label |-> "Welcome",
                         context |-> sealed, pt |-> plain, flip |-> 0]]]

BuildWelcome(refs, secretsPlain, joiner, infoPlain) ==
    [cipherSuite |-> 1,
     secrets |-> [i \in 1..Len(refs) |->
                    SealGroupSecrets(refs[i], SealGroupInfo(joiner, infoPlain), secretsPlain)],
     encryptedGroupInfo |-> SealGroupInfo(joiner, infoPlain)]

NoTamper == [field |-> "none", entry |-> 0, at |-> 0]

Tampers(n, variant) ==
    {NoTamper}
    \cup {[field |-> "encryptedGroupInfo", entry |-> 0, at |-> k] : k \in 1..MaxFlipAt}
    \cup {[field |-> f, entry |-> e, at |-> k] :
            f \in {"ciphertext", "kemOutput"}, e \in 1..n, k \in 1..MaxFlipAt}
    \cup (IF Signed(variant)
          THEN {[field |-> "signature", entry |-> 0, at |-> k] : k \in 1..3}
          ELSE {})

\* The welcome with the byte of a ciphertext flipped after it was built.
FlipIn(welcome, tm) ==
    IF tm.field = "encryptedGroupInfo"
    THEN [welcome EXCEPT !.encryptedGroupInfo.flip = tm.at]
    ELSE IF tm.field = "ciphertext"
    THEN [welcome EXCEPT !.secrets[tm.entry].encryptedGroupSecrets.ciphertext.flip = tm.at]
    ELSE IF tm.field = "kemOutput"
    THEN [welcome EXCEPT !.secrets[tm.entry].encryptedGroupSecrets.kemOutput.flip = tm.at]
    ELSE welcome

NotCalled == [err |-> "not called", stages |-> <<>>]

WelcomeInit ==
    /\ \E refs \in SeqsUpTo(WelcomeRefs, MaxSecrets), secretsPlain \in GroupSecretsPlain,
          joiner \in Joiners, variant \in GroupInfoVariants :
         \E tm \in Tampers(Len(refs), variant) :
            /\ w0 = BuildWelcome(refs, secretsPlain, joiner, GroupInfoPlain(variant, 0))
            /\ tamper = tm
            /\ w = IF tm.field = "signature"
                   THEN BuildWelcome(refs, secretsPlain, joiner, GroupInfoPlain(variant, tm.at))
                   ELSE FlipIn(BuildWelcome(refs, secretsPlain, joiner,
                                            GroupInfoPlain(variant, 0)), tm)
    /\ ref \in WelcomeRefs
    /\ initKeyPriv \in Keys
    /\ signerPub \in Keys
    /\ wOut = NotCalled
    /\ DecodeIdle /\ PskIdle /\ TreeIdle

Process ==
    /\ wOut.err = "not called"
    /\ wOut' = welcome_process(w, ref, initKeyPriv, signerPub)
    /\ UNCHANGED <<w, ref, initKeyPriv, signerPub, w0, tamper, decodeVars, pskVars, treeVars>>

WelcomeNext == Process

SpecWelcome == WelcomeInit /\ [][WelcomeNext]_vars

----------------------------------------------------------------------------
(* Claims about welcome.process, stated on the welcome, the arguments and  *)
(* the outcome.                                                            *)

Processed == wOut.err \notin {"not called", "idle"}

\* The entries whose reference is the caller's, and the first of them.
Matching == {i \in 1..Len(w.secrets) : w.secrets[i].newMember = ref}
First == CHOOSE i \in Matching : \A j \in Matching : i <= j
Entry == w.secrets[First].encryptedGroupSecrets

Found == Matching # {}

\* The entry opens under the caller's init key with the welcome's
\* encryptedGroupInfo as context.
SecretsOpen ==
    /\ Found
    /\ Entry.kemOutput.flip = 0 /\ Entry.ciphertext.flip = 0
    /\ Entry.kemOutput.pub = initKeyPriv /\ Entry.ciphertext.pub = initKeyPriv
    /\ Entry.ciphertext.label = "Welcome"
    /\ Entry.ciphertext.context = w.encryptedGroupInfo

\* Its plaintext is the encoding of a groupSecrets.
SecretsDecoded ==
    /\ SecretsOpen
    /\ \E g \in GroupSecretsSamples : GroupSecretsBytes(g) = Entry.ciphertext.pt

Secrets == CHOOSE g \in GroupSecretsSamples : GroupSecretsBytes(g) = Entry.ciphertext.pt

NoPsks == SecretsDecoded /\ Secrets.psks = <<>>

\* encryptedGroupInfo opens under the key and nonce of the joiner secret.
InfoOpen ==
    /\ NoPsks
    /\ w.encryptedGroupInfo.flip = 0
    /\ w.encryptedGroupInfo.key = WelcomeKeyOf(Secrets.joinerSecret)
    /\ w.encryptedGroupInfo.nonce = WelcomeNonceOf(Secrets.joinerSecret)
    /\ w.encryptedGroupInfo.aad = <<>>

InfoPlain == w.encryptedGroupInfo.pt

\* The decode of the group info returned nil and consumed its input.
InfoDecodeReturnedNil ==
    /\ InfoOpen
    /\ groupInfo_unmarshal(ZeroGroupInfo, InfoPlain).err = NoErr
    /\ groupInfo_unmarshal(ZeroGroupInfo, InfoPlain).s = <<>>

\* The plaintext is the encoding of the group info decoded from it.
InfoGenuine ==
    /\ InfoOpen
    /\ groupInfo_marshal(groupInfo_unmarshal(ZeroGroupInfo, InfoPlain).v) = InfoPlain

\* The signature in the plaintext is the signer's over the bytes before it.
SignatureVerifies ==
    /\ InfoDecodeReturnedNil
    /\ \E n \in 0..Len(InfoPlain) :
          InfoPlain = Take(InfoPlain, n)
                      \o Vec(SigBytes(signerPub, "GroupInfoTBS", Take(InfoPlain, n)))

\* Stage n of StageOrder and every stage before it passed.
Passed(n) ==
    IF n = 0 THEN TRUE
    ELSE IF n = 1 THEN Found
    ELSE IF n = 2 THEN SecretsDecoded
    ELSE IF n \in {3, 4} THEN NoPsks
    ELSE IF n = 5 THEN InfoDecodeReturnedNil
    ELSE SignatureVerifies

StageErrors(n) ==
    IF n = 1 THEN {ErrNotFound}
    ELSE IF n = 2 THEN {ErrOpen, ErrUnexpectedEOF, ErrExcess, "mls: invalid PSK type"}
    ELSE IF n = 3 THEN {ErrPSK}
    ELSE IF n = 4 THEN {}
    ELSE IF n = 5 THEN {ErrAead, ErrUnexpectedEOF, ErrExcess, "mls: invalid protocol version"}
    ELSE {ErrSignature}

\* C1: the stages entered are a prefix of the fixed order; an error is the
\* failure of the last stage entered, every stage before it having passed;
\* success means all six stages were entered, the entry was found, both
\* decryptions and both decodes succeeded, no PSK was listed and the
\* signature verified against the supplied key.
C1_StagesInOrderStopAtFirstFailure ==
    Processed =>
        \E n \in 1..Len(StageOrder) :
            /\ wOut.stages = Take(StageOrder, n)
            /\ wOut.err # NoErr
                => (Passed(n - 1) /\ ~Passed(n) /\ wOut.err \in StageErrors(n))
            /\ wOut.err = NoErr
                => (/\ n = Len(StageOrder)
                    /\ Found /\ SecretsOpen /\ SecretsDecoded /\ NoPsks
                    /\ InfoOpen /\ InfoDecodeReturnedNil /\ InfoGenuine
                    /\ SignatureVerifies)

\* A welcome with two entries, the caller's the second, has been accepted.
C1_Witness ==
    /\ Processed /\ wOut.err = NoErr /\ wOut.stages = StageOrder
    /\ Len(w.secrets) = 2 /\ Found /\ First = 2

\* The welcome as built is accepted for the caller's arguments.
BaseAccepted == welcome_process(w0, ref, initKeyPriv, signerPub).err = NoErr

\* The byte flipped is in a field the claim names; for the ciphertext, in
\* the caller's entry.
FlipCovered ==
    \/ tamper.field \in {"encryptedGroupInfo", "signature"}
    \/ tamper.field = "ciphertext" /\ Found /\ tamper.entry = First

FailedAt(stage) ==
    /\ wOut.err # NoErr
    /\ wOut.stages # <<>>
    /\ wOut.stages[Len(wOut.stages)] = stage

\* C2 as stated: a byte flipped in encryptedGroupInfo, in the ciphertext of
\* the group secrets or in the signature of an accepted welcome makes
\* process fail at decrypt-secrets, decrypt-groupInfo and verify-signature
\* respectively.
C2_FlipFailsAtStatedStage ==
    (Processed /\ BaseAccepted /\ FlipCovered)
        => FailedAt(IF tamper.field = "encryptedGroupInfo" THEN "decrypt-secrets"
                    ELSE IF tamper.field = "ciphertext" THEN "decrypt-groupInfo"
                    ELSE "verify-signature")

\* C2 amended: the flip in encryptedGroupInfo and the flip in the ciphertext
\* of the group secrets both fail at decrypt-secrets, the flip in the
\* signature at verify-signature.
C2_FlipFailsAtBindingStage ==
    (Processed /\ BaseAccepted /\ FlipCovered)
        => FailedAt(IF tamper.field \in {"encryptedGroupInfo", "ciphertext"}
                    THEN "decrypt-secrets"
                    ELSE "verify-signature")

\* A byte flipped in the ciphertext of the caller's group secrets has been
\* refused when the group secrets were decrypted.
C2_Witness ==
    /\ Processed /\ BaseAccepted /\ tamper.field = "ciphertext" /\ FlipCovered
    /\ wOut.err = ErrOpen /\ wOut.stages = <<"lookup", "decrypt-secrets">>

\* C3: when the decrypted groupSecrets lists a PSK, process returns the
\* unsupported-feature error at the PSK gate, having neither derived the
\* welcome key nor decrypted encryptedGroupInfo.
C3_PskWelcomeRefused ==
    (Processed /\ SecretsDecoded /\ Secrets.psks # <<>>)
        => (/\ wOut.err = ErrPSK
            /\ wOut.stages = <<"lookup", "decrypt-secrets", "psk-gate">>)

\* A welcome whose groupSecrets lists PSKs has been refused.
C3_Witness ==
    /\ Processed /\ SecretsDecoded /\ Len(Secrets.psks) = MaxPSKs
    /\ wOut.err = ErrPSK

----------------------------------------------------------------------------
(* The ratchet tree: the array of node slots, a slot blank (<<>>) or       *)
(* holding one node; node index x is element x + 1 of the sequence.        *)

MaxAdds == 3

Pow2(k) == 2 ^ k

\* The level of a node: the number of its trailing one bits; leaves are 0.
RECURSIVE level(_)
level(x) == IF x % 2 = 0 THEN 0 ELSE 1 + level(x \div 2)

\* The number of leaves of a tree of the given width.
numLeaves(width) == (width + 1) \div 2

\* The root of a tree of n leaves, n a power of two.
root(n) == n - 1

\* The parent of x in a tree of n leaves: <<>> for the root.
parent(x, n) ==
    IF x = root(n) THEN <<>>
    ELSE Bind(level(x), LAMBDA k :
            <<x + Pow2(k) - ((x \div Pow2(k + 1)) % 2) * Pow2(k + 1)>>)

\* The slots of the direct path of x, blanked one parent after the other.
RECURSIVE blankDirectPath(_, _, _)
blankDirectPath(t, x, n) ==
    Bind(parent(x, n), LAMBDA p :
        IF p = <<>> THEN t
        ELSE blankDirectPath([t EXCEPT ![p[1] + 1] = <<>>], p[1], n))

LeafSlot(leaf) == <<[nodeType |-> "leaf", leafNode |-> leaf]>>

\* The node index of the first blank leaf, or the width when none is blank.
RECURSIVE firstBlankLeaf(_, _)
firstBlankLeaf(t, li) ==
    IF 2 * li >= Len(t) THEN Len(t)
    ELSE IF t[2 * li + 1] = <<>> THEN 2 * li
    ELSE firstBlankLeaf(t, li + 1)

\* The tree grown to twice its leaves, the new slots blank.
extended(t) == t \o [i \in 1..(Len(t) + 1) |-> <<>>]

\* add without the blanking of the direct path.
ratchetTree_add_keepPath(t, leaf) ==
    Bind(firstBlankLeaf(t, 0), LAMBDA ni :
        IF ni < Len(t) THEN [t EXCEPT ![ni + 1] = LeafSlot(leaf)]
        ELSE [extended(t) EXCEPT ![Len(t) + 2] = LeafSlot(leaf)])

ratchetTree_add(t, leaf) ==
    Bind(firstBlankLeaf(t, 0), LAMBDA ni :
        IF ni < Len(t)
        THEN [blankDirectPath(t, ni, numLeaves(Len(t))) EXCEPT ![ni + 1] = LeafSlot(leaf)]
        ELSE Bind(extended(t), LAMBDA grown :
                [blankDirectPath(grown, Len(t) + 1, numLeaves(Len(grown)))
                    EXCEPT ![Len(t) + 2] = LeafSlot(leaf)]))

LeafContents == {[content |-> <<1>>], [content |-> <<2>>]}

ParentSlot == <<[nodeType |-> "parent", parentNode |-> [encryptionKey |-> <<8>>]]>>

\* The structurally valid trees of 1, 2 and 4 leaves: leaves at the even
\* node indices, parents at the odd, any of them blank.
ValidTrees ==
    UNION {{t \in [1..(2 * n - 1) -> {<<>>, LeafSlot([content |-> <<1>>]), ParentSlot}] :
                \A i \in 1..(2 * n - 1) :
                    /\ (i % 2 = 1) => t[i] # ParentSlot
                    /\ (i % 2 = 0) => t[i] \in {<<>>, ParentSlot}} :
           n \in {1, 2, 4}}

NoAdd == [n |-> 0, before |-> <<>>, leaf |-> <<>>]

TreeInit ==
    /\ tree \in ValidTrees
    /\ lastAdd = NoAdd
    /\ DecodeIdle /\ PskIdle /\ WelcomeIdle

Add ==
    /\ lastAdd.n < MaxAdds
    /\ \E leaf \in LeafContents :
         /\ tree' = ratchetTree_add(tree, leaf)
         /\ lastAdd' = [n |-> lastAdd.n + 1, before |-> tree, leaf |-> leaf]
    /\ UNCHANGED <<decodeVars, pskVars, welcomeVars>>

TreeNext == Add

SpecTree == TreeInit /\ [][TreeNext]_vars

\* The node indices of the blank leaves of t.
BlankLeaves(t) == {x \in 0..(Len(t) - 1) : x % 2 = 0 /\ t[x + 1] = <<>>}

\* Where the claim puts the leaf added to t.
AddPosition(t) ==
    IF BlankLeaves(t) = {} THEN Len(t) + 1
    ELSE CHOOSE x \in BlankLeaves(t) : \A y \in BlankLeaves(t) : x <= y

\* The internal nodes above leaf x in a tree of the given width: those
\* whose span of 2^level - 1 indices on either side holds x.
DirectPath(x, width) ==
    {y \in 0..(width - 1) :
        /\ y % 2 = 1
        /\ x >= y - (Pow2(level(y)) - 1)
        /\ x <= y + (Pow2(level(y)) - 1)}

\* C9: the array length is odd; the last add put its leaf at the first blank
\* leaf, or at the first new leaf of the tree grown to twice its leaves when
\* no leaf was blank; the internal nodes on that leaf's direct path are
\* blank; every other node is as it was, the other new slots blank.
C9_AddKeepsTreeShape ==
    /\ Len(tree) % 2 = 1
    /\ lastAdd.n > 0 =>
         /\ Len(tree) = (IF BlankLeaves(lastAdd.before) = {} THEN 2 * Len(lastAdd.before) + 1
                         ELSE Len(lastAdd.before))
         /\ tree[AddPosition(lastAdd.before) + 1] = LeafSlot(lastAdd.leaf)
         /\ \A y \in 0..(Len(tree) - 1) :
              IF y = AddPosition(lastAdd.before) THEN TRUE
              ELSE IF y \in DirectPath(AddPosition(lastAdd.before), Len(tree))
              THEN tree[y + 1] = <<>>
              ELSE IF y < Len(lastAdd.before) THEN tree[y + 1] = lastAdd.before[y + 1]
              ELSE tree[y + 1] = <<>>

\* A leaf has been added at a blank leaf of a tree of four leaves, below a
\* populated parent that is blank since.
C9_Witness ==
    /\ lastAdd.n > 0
    /\ Len(lastAdd.before) = 7 /\ BlankLeaves(lastAdd.before) # {}
    /\ \E y \in DirectPath(AddPosition(lastAdd.before), Len(tree)) :
          lastAdd.before[y + 1] # <<>> /\ tree[y + 1] = <<>>
    /\ tree[AddPosition(lastAdd.before) + 1] = LeafSlot(lastAdd.leaf)

====
